---------------------------- MODULE Spec2Model ----------------------------
(***************************************************************************)
(* A model of examples/triangle.rs: the TrianglePipelineKey bit field, and *)
(* the per-frame render pipeline of TriangleRenderPlugin (extract,         *)
(* prepare, queue, phase sort, render, cleanup) over a small world of      *)
(* entities and views.                                                     *)
(***************************************************************************)
EXTENDS Integers, Sequences, FiniteSets, TLC

(***************************************************************************)
(* Bounds of the model.                                                    *)
(***************************************************************************)
\* Sample counts 0..MaxSamples are tried as inputs of from_msaa_samples.
MaxSamples == 130
\* Entities 1..MaxEntities exist in the main world.
MaxEntities == 2

(***************************************************************************)
(* u32 values.  A u32 is the set of the positions (0..31) of its 1 bits,   *)
(* so that every value of the type is representable and shifts drop the    *)
(* bits that leave the word, as the hardware does.                         *)
(***************************************************************************)
BitPositions == 0..31

\* The u32 of a natural number below 2^31.
U32(n) == {i \in 0..30 : (n \div (2^i)) % 2 = 1}

RECURSIVE Val(_)
\* The number of a u32 below 2^31.
Val(bits) ==
    IF bits = {} THEN 0
    ELSE LET m == CHOOSE i \in bits : \A j \in bits : i <= j
         IN  (2^m) + Val(bits \ {m})

\* a & b, a | b
BitAnd(a, b) == a \cap b
BitOr(a, b) == a \cup b
\* a << k, a >> k for 0 <= k < 32
Shl(a, k) == {i + k : i \in {j \in a : j + k <= 31}}
Shr(a, k) == {i - k : i \in {j \in a : j >= k}}

\* a - 1 in two's complement (borrow through the low 0 bits); 0 wraps to u32::MAX.
WrappingSubOne(a) ==
    IF a = {} THEN BitPositions
    ELSE LET m == CHOOSE i \in a : \A j \in a : i <= j
         IN  (a \ {m}) \cup {i \in BitPositions : i < m}

\* a + 1 (carry through the low 1 bits); u32::MAX wraps to 0.
WrappingAddOne(a) ==
    IF a = BitPositions THEN {}
    ELSE LET m == CHOOSE i \in BitPositions \ a : \A j \in BitPositions \ a : i <= j
         IN  {i \in a : i > m} \cup {m}

\* Rust's `a - 1` on u32: with overflow checks (the dev profile) 0 - 1 panics,
\* without them (the release profile) it wraps.
SubOne(a, checks) ==
    IF a = {} /\ checks THEN [panic |-> TRUE, bits |-> {}]
    ELSE [panic |-> FALSE, bits |-> WrappingSubOne(a)]

\* Rust's `a + 1` on u32.
AddOne(a, checks) ==
    IF a = BitPositions /\ checks THEN [panic |-> TRUE, bits |-> {}]
    ELSE [panic |-> FALSE, bits |-> WrappingAddOne(a)]

(***************************************************************************)
(* TrianglePipelineKey (bitflags over u32).                                *)
(***************************************************************************)
MSAA_MASK_BITS == U32(63)

\* A key whose MSAA field is not shifted above the feature flags.
MSAA_SHIFT_BITS_unshifted == 6 - 6
MSAA_SHIFT_BITS == 32 - 6

NONE == U32(0)
COLORED == Shl(U32(1), 0)
\* A flag declaring five of the six bits of the MSAA field.
MSAA_RESERVED_BITS_narrow == Shl(U32(31), MSAA_SHIFT_BITS)
MSAA_RESERVED_BITS == Shl(MSAA_MASK_BITS, MSAA_SHIFT_BITS)

\* bitflags' all(): the union of the declared flags.
AllFlagBits == BitOr(BitOr(NONE, COLORED), MSAA_RESERVED_BITS)

\* bitflags' from_bits: None when a bit outside the declared flags is set.
from_bits(bits) ==
    IF BitAnd(bits, BitPositions \ AllFlagBits) = {}
    THEN [some |-> TRUE, bits |-> bits]
    ELSE [some |-> FALSE, bits |-> {}]

\* bitflags' contains: every bit of flag is set in key.
contains(key, flag) == BitAnd(key, flag) = flag

\* from_msaa_samples: ((msaa_samples - 1) & MASK) << SHIFT, then
\* from_bits(..).unwrap().  The result is a panic or the key's bits.
from_msaa_samples(samples, checks) ==
    LET minus_one == SubOne(samples, checks)
        msaa_bits == Shl(BitAnd(minus_one.bits, MSAA_MASK_BITS), MSAA_SHIFT_BITS)
        key       == from_bits(msaa_bits)
    IN  IF minus_one.panic \/ ~key.some
        THEN [panic |-> TRUE, bits |-> {}]
        ELSE [panic |-> FALSE, bits |-> key.bits]

\* An extractor that forgets the + 1.
msaa_samples_no_plus_one(key, checks) ==
    [panic |-> FALSE, bits |-> BitAnd(Shr(key, MSAA_SHIFT_BITS), MSAA_MASK_BITS)]

\* msaa_samples: ((bits >> SHIFT) & MASK) + 1
msaa_samples(key, checks) ==
    AddOne(BitAnd(Shr(key, MSAA_SHIFT_BITS), MSAA_MASK_BITS), checks)

(***************************************************************************)
(* The world the plugin runs in.                                           *)
(***************************************************************************)
Entities == 1..MaxEntities
Views == {"view_a", "view_b"}

\* The Msaa resource main() inserts, and the sample counts an application
\* may configure instead.
DefaultMsaa == 4
MsaaChoices == {1, DefaultMsaa}

\* GlobalTransform values of the entities (translation only; rotation is the
\* identity and scale is one).
Transforms == {[translation |-> <<0, 0, 5>>], [translation |-> <<1, 0, -2>>]}

\* Sample counts tried on the key: 0, the documented range, counts beyond it.
SampleInputs == (0..MaxSamples) \cup {1000, 65536, 2147483647}
FlagNames == {"NONE", "COLORED"}
Flag(f) == IF f = "COLORED" THEN COLORED ELSE NONE

VARIABLES
    \* a TrianglePipelineKey computation: its position, its inputs, its results
    k_pc, k_n, k_f, k_key, k_samples, k_or, k_or_samples,
    \* whether the build checks integer overflow (dev profile) or not (release)
    overflow_checks,
    \* the frame: the stage in progress and the systems of it that have run;
    \* the systems of the schedule that a specification follows; history: the
    \* systems that have completed in this frame
    stage, ran, registered, done,
    \* main world: Triangle component, TriangleMeshHandle, GlobalTransform,
    \* ComputedVisibility per entity; Assets<Mesh> size; the Msaa resource
    has_triangle, mesh_handle, tform, is_visible, meshes, msaa,
    \* render world: (TriangleMeshHandle, TriangleUniform) per entity,
    \* VisibleEntities and RenderPhase<Transparent2d> per view
    records, visible, phase,
    \* SpecializedPipelines<TrianglePipeline> and RenderPipelineCache
    pipelines, pipeline_cache,
    \* history: each phase as it was when sorting began; the entities that had
    \* a record in the previous frame
    unsorted, prev_records,
    \* render world resources: RenderAssets<Mesh>, ViewUniforms,
    \* ComponentUniforms<TriangleUniform>, MeshBindGroup
    render_assets, view_uniforms, mesh_uniforms, mesh_bind_group,
    \* render world components: the views with an ExtractedView, and per view
    \* ViewUniformOffset and ViewBindGroup; DynamicUniformIndex per entity
    extracted_views, view_offset, view_bind_group, uniform_index,
    \* the render pass of each view: the calls made on it, the errors logged
    passes

key_vars == <<k_pc, k_n, k_f, k_key, k_samples, k_or, k_or_samples>>
main_vars == <<has_triangle, mesh_handle, tform, is_visible, meshes, msaa>>
render_vars == <<records, visible, phase, unsorted, prev_records>>
cache_vars == <<pipelines, pipeline_cache>>
resource_vars == <<render_assets, view_uniforms, mesh_uniforms, mesh_bind_group>>
component_vars == <<extracted_views, view_offset, view_bind_group, uniform_index>>
draw_vars == <<resource_vars, component_vars, passes>>
frame_vars == <<stage, ran, registered, done, main_vars, render_vars, cache_vars, draw_vars>>
vars == <<key_vars, overflow_checks, frame_vars>>

EmptyTable == [e \in {} |-> 0]

(***************************************************************************)
(* The key computation, one call at a time.                                *)
(***************************************************************************)
KeyFromMsaaSamples ==
    /\ k_pc = "input"
    /\ LET r == from_msaa_samples(U32(k_n), overflow_checks)
       IN  /\ k_pc' = IF r.panic THEN "panicked" ELSE "built"
           /\ k_key' = r.bits
    /\ UNCHANGED <<k_n, k_f, k_samples, k_or, k_or_samples, overflow_checks, frame_vars>>

KeyMsaaSamples ==
    /\ k_pc = "built"
    /\ LET r == msaa_samples(k_key, overflow_checks)
       IN  /\ k_pc' = IF r.panic THEN "panicked" ELSE "read"
           /\ k_samples' = Val(r.bits)
    /\ UNCHANGED <<k_n, k_f, k_key, k_or, k_or_samples, overflow_checks, frame_vars>>

\* key | flag
KeyOrFlag ==
    /\ k_pc = "read"
    /\ k_or' = BitOr(k_key, Flag(k_f))
    /\ k_pc' = "merged"
    /\ UNCHANGED <<k_n, k_f, k_key, k_samples, k_or_samples, overflow_checks, frame_vars>>

KeyMsaaSamplesOfMerged ==
    /\ k_pc = "merged"
    /\ LET r == msaa_samples(k_or, overflow_checks)
       IN  /\ k_pc' = IF r.panic THEN "panicked" ELSE "done"
           /\ k_or_samples' = Val(r.bits)
    /\ UNCHANGED <<k_n, k_f, k_key, k_samples, k_or, overflow_checks, frame_vars>>

\* No key computation is in progress.
KeyIdle ==
    /\ k_pc = "idle" /\ k_n = 0 /\ k_f = "NONE" /\ k_key = {}
    /\ k_samples = 0 /\ k_or = {} /\ k_or_samples = 0

(***************************************************************************)
(* Components, draw items and the pipeline cache.                          *)
(***************************************************************************)
\* Handle<Mesh>::clone_weak: the same asset id, not keeping the asset alive.
clone_weak(handle) == [id |-> handle.id, strong |-> FALSE]

\* GlobalTransform::compute_matrix: the columns of the 4x4 matrix; the
\* translation is the w axis.
compute_matrix(t) ==
    [x_axis |-> <<1, 0, 0, 0>>, y_axis |-> <<0, 1, 0, 0>>, z_axis |-> <<0, 0, 1, 0>>,
     w_axis |-> <<t.translation[1], t.translation[2], t.translation[3], 1>>]

\* Inserting components on an entity: it has them from now on, whatever it
\* had of them before; other entities are untouched.
insert(table, entity, components) ==
    [e \in (DOMAIN table) \cup {entity} |-> IF e = entity THEN components ELSE table[e]]

RECURSIVE insert_first(_, _, _)
\* The first n (entity, components) pairs of a batch inserted, in order.
insert_first(table, batch, n) ==
    IF n = 0 THEN table
    ELSE insert(insert_first(table, batch, n - 1), batch[n][1], batch[n][2])

\* Commands::insert_or_spawn_batch
insert_or_spawn_batch(table, batch) == insert_first(table, batch, Len(batch))

\* The orders in which a query may visit the entities of a set.
IterationOrders(S) ==
    {s \in [1..Cardinality(S) -> S] : \A i, j \in 1..Cardinality(S) : s[i] = s[j] => i = j}

\* A Transparent2d item of DrawTriangle.
TriangleItem(entity, pipeline_id, mesh_z) ==
    [entity |-> entity, draw_function |-> "DrawTriangle", pipeline |-> pipeline_id,
     sort_key |-> mesh_z, batch_range |-> "None"]

\* The item another draw contributor (the sprite renderer) queues in a view.
SpriteItem ==
    [entity |-> 0, draw_function |-> "DrawSprite", pipeline |-> -1,
     sort_key |-> 3, batch_range |-> "None"]

\* RenderPhase::add
phase_add(items, item) == Append(items, item)

\* RenderPhase::sort: a stable sort by sort_key (FloatOrd's order).
InsertSorted(sorted, item) ==
    LET p == Cardinality({i \in 1..Len(sorted) : sorted[i].sort_key <= item.sort_key})
    IN  SubSeq(sorted, 1, p) \o <<item>> \o SubSeq(sorted, p + 1, Len(sorted))

RECURSIVE SortPrefix(_, _)
SortPrefix(items, n) ==
    IF n = 0 THEN <<>> ELSE InsertSorted(SortPrefix(items, n - 1), items[n])

phase_sort(items) == SortPrefix(items, Len(items))

\* A descriptor with the multisample state of MultisampleState::default().
specialize_descriptor_one_sample(key) ==
    [multisample_count |-> 1, label |-> "triangle pipeline"]

\* TrianglePipeline::specialize: the descriptor's multisample state.
specialize_descriptor(key) ==
    [multisample_count |-> Val(msaa_samples(key, overflow_checks).bits),
     label |-> "triangle pipeline"]

\* RenderPipelineCache::queue: a new entry, waiting to be created; its id is
\* its index.
cache_queue(cache, key, descriptor) ==
    [cache |-> Append(cache, [key |-> key, descriptor |-> descriptor, state |-> "Queued"]),
     id    |-> Len(cache)]

\* SpecializedPipelines::specialize: the id cached for the key, or else a
\* new entry of the pipeline cache, remembered for the key.
specialize(specialized, cache, key) ==
    IF key \in DOMAIN specialized
    THEN [pipelines |-> specialized, cache |-> cache, id |-> specialized[key]]
    ELSE LET q == cache_queue(cache, key, specialize_descriptor(key))
         IN  [pipelines |-> [k \in (DOMAIN specialized) \cup {key} |->
                                IF k = key THEN q.id ELSE specialized[k]],
              cache |-> q.cache, id |-> q.id]

\* The entries of the pipeline cache still waiting to be created.
WaitingIds == {i \in 1..Len(pipeline_cache) : pipeline_cache[i].state = "Queued"}

(***************************************************************************)
(* The schedule: the stages of a frame and the systems of each.            *)
(***************************************************************************)
\* A schedule with the systems of TriangleRenderPlugin all in one stage.
Schedule_one_stage(st) ==
    CASE st = "Extract"   -> {"extract_cameras", "extract_triangle_meshes",
                              "queue_view_bind_groups", "queue_mesh_bind_groups",
                              "queue_triangles"}
      [] st = "Prepare"   -> {"prepare_assets", "prepare_view_uniforms",
                              "prepare_uniform_components"}
      [] st = "Queue"     -> {"queue_sprites"}
      [] st = "PhaseSort" -> {"sort_phase_system"}
      [] st = "Render"    -> {"process_pipeline_queue", "render_system"}
      [] OTHER            -> {}

\* The systems added to each stage of the render schedule, by
\* TriangleRenderPlugin::build and by the plugins of the engine.
Schedule(st) ==
    CASE st = "Extract"   -> {"extract_cameras", "extract_triangle_meshes"}
      [] st = "Prepare"   -> {"prepare_assets", "prepare_view_uniforms",
                              "prepare_uniform_components"}
      [] st = "Queue"     -> {"queue_sprites", "queue_view_bind_groups",
                              "queue_mesh_bind_groups", "queue_triangles"}
      [] st = "PhaseSort" -> {"sort_phase_system"}
      [] st = "Render"    -> {"process_pipeline_queue", "render_system"}
      [] OTHER            -> {}

\* The systems of a stage that the specification follows.
Systems(st) == Schedule(st) \cap registered

\* The stages of a frame, in the order they run.
StageOrder == <<"Update", "Extract", "Prepare", "Queue", "PhaseSort", "Render", "Cleanup">>

StageIndex(st) == CHOOSE i \in 1..Len(StageOrder) : StageOrder[i] = st

RECURSIVE StageFrom(_)
\* The first stage from the i-th on that has something to run.
StageFrom(i) ==
    IF i >= Len(StageOrder) THEN StageOrder[Len(StageOrder)]
    ELSE IF Systems(StageOrder[i]) # {} THEN StageOrder[i]
    ELSE StageFrom(i + 1)

NextStage(st) ==
    IF st = "Cleanup" THEN "Update" ELSE StageFrom(StageIndex(st) + 1)

\* A system of the stage in progress that has not run in this frame may run.
MayRun(system) == system \in Systems(stage) /\ system \notin ran

\* The system has run; the stage ends when all its systems have.
Ran(system) ==
    /\ done' = done \cup {system}
    /\ IF ran \cup {system} = Systems(stage)
       THEN stage' = NextStage(stage) /\ ran' = {}
       ELSE stage' = stage /\ ran' = ran \cup {system}

(***************************************************************************)
(* Main world: the application's update.                                   *)
(***************************************************************************)
\* Another system moves a triangle.
set_transform(e, t) ==
    /\ stage = "Update" /\ has_triangle[e] /\ tform[e] # t
    /\ tform' = [tform EXCEPT ![e] = t]
    /\ UNCHANGED <<key_vars, overflow_checks, registered, draw_vars, stage, ran, done,
                   has_triangle, mesh_handle,
                   is_visible, meshes, msaa, render_vars, cache_vars>>

\* The visibility system shows or hides a triangle.
set_visibility(e, b) ==
    /\ stage = "Update" /\ has_triangle[e] /\ is_visible[e] # b
    /\ is_visible' = [is_visible EXCEPT ![e] = b]
    /\ UNCHANGED <<key_vars, overflow_checks, registered, draw_vars, stage, ran, done,
                   has_triangle, mesh_handle,
                   tform, meshes, msaa, render_vars, cache_vars>>

\* The application changes the Msaa resource.
set_msaa(n) ==
    /\ stage = "Update" /\ msaa # n
    /\ msaa' = n
    /\ UNCHANGED <<key_vars, overflow_checks, registered, draw_vars, stage, ran, done,
                   has_triangle, mesh_handle,
                   tform, is_visible, meshes, render_vars, cache_vars>>

\* A query without the Without<TriangleMeshHandle> filter.
WithoutHandle_unfiltered == {e \in Entities : has_triangle[e]}

\* The entities the query of triangle_mesh_system matches:
\* (Entity, &Triangle), Without<TriangleMeshHandle>.
WithoutHandle == {e \in Entities : has_triangle[e] /\ e \notin DOMAIN mesh_handle}

\* triangle_mesh_system: a new mesh asset and a handle to it for each matched
\* entity; the inserts are applied when the stage ends, before extraction.
triangle_mesh_system ==
    /\ stage = "Update"
    /\ mesh_handle' =
         [e \in (DOMAIN mesh_handle) \cup WithoutHandle |->
            IF e \in WithoutHandle
            THEN [id |-> meshes + Cardinality({d \in WithoutHandle : d <= e}), strong |-> TRUE]
            ELSE mesh_handle[e]]
    /\ meshes' = meshes + Cardinality(WithoutHandle)
    /\ stage' = NextStage(stage)
    /\ UNCHANGED <<key_vars, overflow_checks, registered, draw_vars, ran, done,
                   has_triangle, tform, is_visible, msaa,
                   render_vars, cache_vars>>

(***************************************************************************)
(* Render world: Extract.                                                  *)
(***************************************************************************)
\* The camera extraction of the engine: each view of an active camera gets
\* an ExtractedView, its VisibleEntities and an empty
\* RenderPhase<Transparent2d>.
extract_cameras(active, visible_sets) ==
    /\ MayRun("extract_cameras")
    /\ extracted_views' = active
    /\ visible' = [v \in Views |-> IF v \in active THEN visible_sets[v] ELSE {}]
    /\ phase' = [v \in Views |-> <<>>]
    /\ Ran("extract_cameras")
    /\ UNCHANGED <<key_vars, overflow_checks, registered, main_vars, records, unsorted,
                   prev_records, cache_vars, resource_vars, view_offset, view_bind_group,
                   uniform_index, passes>>

\* The entities the query of extract_triangle_meshes matches: (Entity,
\* &TriangleMeshHandle, &GlobalTransform, &ComputedVisibility).  Every entity
\* of the model has a GlobalTransform and a ComputedVisibility.
WithHandle == DOMAIN mesh_handle

\* extract_triangle_meshes, the map closure: the entity with a weak copy of
\* its handle and the matrix of its transform.
extracted(entity) ==
    <<entity, [handle  |-> clone_weak(mesh_handle[entity]),
               uniform |-> [transform |-> compute_matrix(tform[entity])]]>>

\* An extraction that does not filter by is_visible.
ExtractedComponents_unfiltered(order) ==
    [i \in 1..Len(order) |-> extracted(order[i])]

\* An extraction that keeps the entities it extracted in the frame before.
ExtractedComponents_stale(order) ==
    LET Kept(entity) == is_visible[entity] \/ entity \in prev_records
        kept == SelectSeq(order, Kept)
    IN  [i \in 1..Len(kept) |-> extracted(kept[i])]

\* extract_triangle_meshes, the collected vector: the entities of the query
\* in the order it visits them, filtered by is_visible, mapped.
ExtractedComponents(order) ==
    LET IsVisible(entity) == is_visible[entity]
        kept == SelectSeq(order, IsVisible)
    IN  [i \in 1..Len(kept) |-> extracted(kept[i])]

\* The inserts are applied to the render world when the stage ends, before
\* any system of the later stages runs.
extract_triangle_meshes(order) ==
    /\ MayRun("extract_triangle_meshes")
    /\ records' = insert_or_spawn_batch(records, ExtractedComponents(order))
    /\ Ran("extract_triangle_meshes")
    /\ UNCHANGED <<key_vars, overflow_checks, registered, draw_vars, main_vars, visible, phase, unsorted,
                   prev_records, cache_vars>>

(***************************************************************************)
(* Render world: Prepare.                                                  *)
(***************************************************************************)
\* An Option: no value, or one.
None == <<>>
Some(x) == <<x>>

\* The ids of the mesh assets created so far.
MeshIds == 1..meshes

\* The GPU meshes of the assets triangle_mesh_system has added: all there,
\* none with indices.
BuiltMeshes == [id \in MeshIds |-> "NonIndexed"]

\* The GPU meshes RenderAssets<Mesh> may hold: the built ones, or the built
\* ones with one of them missing or given indices by another system.
GpuMeshes ==
    {BuiltMeshes}
    \cup {[id \in MeshIds \ {missing} |-> "NonIndexed"] : missing \in MeshIds}
    \cup {[BuiltMeshes EXCEPT ![changed] = "Indexed"] : changed \in MeshIds}

\* prepare_assets::<Mesh> of the engine: the meshes that are prepared as of
\* this frame; an asset can be removed, changed or not prepared yet.
prepare_assets(gpu_meshes) ==
    /\ MayRun("prepare_assets")
    /\ render_assets' = gpu_meshes
    /\ Ran("prepare_assets")
    /\ UNCHANGED <<key_vars, overflow_checks, registered, main_vars, render_vars, cache_vars,
                   view_uniforms, mesh_uniforms, mesh_bind_group, component_vars, passes>>

\* DynamicUniformVec::write_buffer with len values pushed since clear():
\* nothing is done for no value; a buffer is created when the values do not
\* fit the capacity, and kept otherwise.
write_buffer(vec, len) ==
    IF len = 0 THEN vec
    ELSE IF len > vec.capacity THEN [capacity |-> len, buffer |-> Some([id |-> len])]
    ELSE vec

\* DynamicUniformVec::binding: the buffer, if one has been created.
binding(vec) == vec.buffer

\* The offsets DynamicUniformVec::push returns for the values pushed in this
\* order: the position of each, counted from 0.
PushOffsets(order) ==
    [x \in {order[i] : i \in 1..Len(order)} |->
        (CHOOSE i \in 1..Len(order) : order[i] = x) - 1]

\* prepare_view_uniforms of the engine: a ViewUniform is pushed for each
\* extracted view, the view gets its ViewUniformOffset, the buffer is written.
prepare_view_uniforms(order) ==
    /\ MayRun("prepare_view_uniforms")
    /\ view_offset' = PushOffsets(order)
    /\ view_uniforms' = write_buffer(view_uniforms, Len(order))
    /\ Ran("prepare_view_uniforms")
    /\ UNCHANGED <<key_vars, overflow_checks, registered, main_vars, render_vars, cache_vars,
                   render_assets, mesh_uniforms, mesh_bind_group, extracted_views,
                   view_bind_group, uniform_index, passes>>

\* prepare_uniform_components::<TriangleUniform> of UniformComponentPlugin:
\* the TriangleUniform of each entity is pushed, the entity gets its
\* DynamicUniformIndex, the buffer is written.
prepare_uniform_components(order) ==
    /\ MayRun("prepare_uniform_components")
    /\ uniform_index' = PushOffsets(order)
    /\ mesh_uniforms' = write_buffer(mesh_uniforms, Len(order))
    /\ Ran("prepare_uniform_components")
    /\ UNCHANGED <<key_vars, overflow_checks, registered, main_vars, render_vars, cache_vars,
                   render_assets, view_uniforms, mesh_bind_group, extracted_views,
                   view_offset, view_bind_group, passes>>

(***************************************************************************)
(* Render world: Queue.                                                    *)
(***************************************************************************)
\* RenderDevice::create_bind_group: a bind group of the buffer, new in this
\* frame.
create_bind_group(label, buffer) ==
    [label |-> label, buffer |-> buffer, built |-> "this frame"]

\* A queue_view_bind_groups that builds the bind group of one view only.
queue_view_bind_groups_one_view ==
    /\ MayRun("queue_view_bind_groups")
    /\ view_bind_group' =
         IF binding(view_uniforms) = None \/ extracted_views = {} THEN view_bind_group
         ELSE [v \in {CHOOSE v \in extracted_views : TRUE} |->
                 create_bind_group("texture view bind group", binding(view_uniforms)[1])]
    /\ Ran("queue_view_bind_groups")
    /\ UNCHANGED <<key_vars, overflow_checks, registered, main_vars, render_vars, cache_vars,
                   resource_vars, extracted_views, view_offset, uniform_index, passes>>

\* queue_view_bind_groups: nothing without a binding of the view uniforms;
\* with one, a ViewBindGroup for each entity With<ExtractedView>.  No system
\* of the stage reads the component, which is inserted when the stage ends.
queue_view_bind_groups ==
    /\ MayRun("queue_view_bind_groups")
    /\ view_bind_group' =
         IF binding(view_uniforms) = None THEN view_bind_group
         ELSE [v \in extracted_views |->
                 create_bind_group("texture view bind group", binding(view_uniforms)[1])]
    /\ Ran("queue_view_bind_groups")
    /\ UNCHANGED <<key_vars, overflow_checks, registered, main_vars, render_vars, cache_vars,
                   resource_vars, extracted_views, view_offset, uniform_index, passes>>

\* A queue_mesh_bind_groups that does not return without a binding.
queue_mesh_bind_groups_unguarded ==
    /\ MayRun("queue_mesh_bind_groups")
    /\ mesh_bind_group' =
         Some(create_bind_group("body_mesh_bind_group",
                                IF binding(mesh_uniforms) = None THEN [id |-> 0]
                                ELSE binding(mesh_uniforms)[1]))
    /\ Ran("queue_mesh_bind_groups")
    /\ UNCHANGED <<key_vars, overflow_checks, registered, main_vars, render_vars, cache_vars,
                   render_assets, view_uniforms, mesh_uniforms, component_vars, passes>>

\* A queue_mesh_bind_groups that keeps the MeshBindGroup there is.
queue_mesh_bind_groups_once ==
    /\ MayRun("queue_mesh_bind_groups")
    /\ mesh_bind_group' =
         IF binding(mesh_uniforms) = None \/ mesh_bind_group # None THEN mesh_bind_group
         ELSE Some(create_bind_group("body_mesh_bind_group", binding(mesh_uniforms)[1]))
    /\ Ran("queue_mesh_bind_groups")
    /\ UNCHANGED <<key_vars, overflow_checks, registered, main_vars, render_vars, cache_vars,
                   render_assets, view_uniforms, mesh_uniforms, component_vars, passes>>

\* queue_mesh_bind_groups: nothing without a binding of the mesh uniforms;
\* with one, the MeshBindGroup resource is inserted, replacing the one there.
queue_mesh_bind_groups ==
    /\ MayRun("queue_mesh_bind_groups")
    /\ mesh_bind_group' =
         IF binding(mesh_uniforms) = None THEN mesh_bind_group
         ELSE Some(create_bind_group("body_mesh_bind_group", binding(mesh_uniforms)[1]))
    /\ Ran("queue_mesh_bind_groups")
    /\ UNCHANGED <<key_vars, overflow_checks, registered, main_vars, render_vars, cache_vars,
                   render_assets, view_uniforms, mesh_uniforms, component_vars, passes>>

\* Another draw contributor adds its item to every view's phase.
queue_sprites ==
    /\ MayRun("queue_sprites")
    /\ phase' = [v \in Views |-> phase_add(phase[v], SpriteItem)]
    /\ Ran("queue_sprites")
    /\ UNCHANGED <<key_vars, overflow_checks, registered, draw_vars, main_vars, records, visible, unsorted,
                   prev_records, cache_vars>>

\* A queue_triangles that queues a new pipeline in every frame, not asking
\* SpecializedPipelines.
queue_pipeline_uncached(samples) ==
    LET key == from_msaa_samples(U32(samples), overflow_checks)
    IN  IF key.panic
        THEN [panic |-> TRUE, pipelines |-> pipelines, cache |-> pipeline_cache, id |-> -1]
        ELSE LET q == cache_queue(pipeline_cache, key.bits, specialize_descriptor(key.bits))
             IN  [panic |-> FALSE,
                  pipelines |-> [k \in (DOMAIN pipelines) \cup {key.bits} |->
                                   IF k = key.bits THEN q.id ELSE pipelines[k]],
                  cache |-> q.cache, id |-> q.id]

\* queue_triangles, the key and the pipeline id: the key of msaa.samples,
\* specialized through SpecializedPipelines.
queue_pipeline(samples) ==
    LET key == from_msaa_samples(U32(samples), overflow_checks)
    IN  IF key.panic
        THEN [panic |-> TRUE, pipelines |-> pipelines, cache |-> pipeline_cache, id |-> -1]
        ELSE LET r == specialize(pipelines, pipeline_cache, key.bits)
             IN  [panic |-> FALSE, pipelines |-> r.pipelines, cache |-> r.cache, id |-> r.id]

\* A queue_triangles that does not look at the view's VisibleEntities.
in_view_any(entity, visible_entities) == TRUE

\* queue_triangles, the test of an entity against a view's VisibleEntities.
in_view(entity, visible_entities) == entity \in visible_entities

\* A sort key read from the x of the translation column.
mesh_z_of_x(uniform) == uniform.transform.w_axis[1]

\* queue_triangles, the sort key: the z of the translation column.
mesh_z(uniform) == uniform.transform.w_axis[3]

RECURSIVE queue_into(_, _, _, _, _)
\* queue_triangles, one view: the first n entities of the query's order,
\* each one in the view added to the view's phase.
queue_into(items, order, n, visible_entities, pipeline_id) ==
    IF n = 0 THEN items
    ELSE LET sofar == queue_into(items, order, n - 1, visible_entities, pipeline_id)
             entity == order[n]
         IN  IF in_view(entity, visible_entities)
             THEN phase_add(sofar, TriangleItem(entity, pipeline_id, mesh_z(records[entity].uniform)))
             ELSE sofar

\* A queue_triangles that replaces what the phase held.
queue_view_replacing(items, order, visible_entities, pipeline_id) ==
    queue_into(<<>>, order, Len(order), visible_entities, pipeline_id)

\* queue_triangles, one view.
queue_view(items, order, visible_entities, pipeline_id) ==
    queue_into(items, order, Len(order), visible_entities, pipeline_id)

\* A queue_triangles that queues only once the MeshBindGroup of the frame
\* is there.
queue_triangles_after_bind_group(order) ==
    /\ MayRun("queue_triangles")
    /\ LET p == queue_pipeline(msaa)
           built == mesh_bind_group # None /\ mesh_bind_group[1].built = "this frame"
       IN  /\ pipelines' = p.pipelines
           /\ pipeline_cache' = p.cache
           /\ phase' = IF p.panic \/ ~built THEN phase
                       ELSE [v \in Views |-> queue_view(phase[v], order, visible[v], p.id)]
           /\ IF p.panic THEN stage' = "Panicked" /\ ran' = ran /\ done' = done
              ELSE Ran("queue_triangles")
    /\ UNCHANGED <<key_vars, overflow_checks, registered, draw_vars, main_vars, records, visible, unsorted,
                   prev_records>>

queue_triangles(order) ==
    /\ MayRun("queue_triangles")
    /\ LET p == queue_pipeline(msaa)
       IN  /\ pipelines' = p.pipelines
           /\ pipeline_cache' = p.cache
           /\ phase' = IF p.panic THEN phase
                       ELSE [v \in Views |-> queue_view(phase[v], order, visible[v], p.id)]
           /\ IF p.panic THEN stage' = "Panicked" /\ ran' = ran /\ done' = done
              ELSE Ran("queue_triangles")
    /\ UNCHANGED <<key_vars, overflow_checks, registered, draw_vars, main_vars, records, visible, unsorted,
                   prev_records>>

(***************************************************************************)
(* Render world: PhaseSort, Render, Cleanup.                               *)
(***************************************************************************)
\* sort_phase_system: every view's phase is sorted.
sort_phase_system ==
    /\ MayRun("sort_phase_system")
    /\ unsorted' = phase
    /\ phase' = [v \in Views |-> phase_sort(phase[v])]
    /\ Ran("sort_phase_system")
    /\ UNCHANGED <<key_vars, overflow_checks, registered, draw_vars, main_vars, records, visible, prev_records,
                   cache_vars>>

\* RenderPipelineCache::process_queue: the waiting pipelines whose shader is
\* ready are created; the others keep waiting.
process_pipeline_queue(ready) ==
    /\ MayRun("process_pipeline_queue")
    /\ pipeline_cache' =
         [i \in 1..Len(pipeline_cache) |->
            IF i \in ready THEN [pipeline_cache[i] EXCEPT !.state = "Ok"]
            ELSE pipeline_cache[i]]
    /\ Ran("process_pipeline_queue")
    /\ UNCHANGED <<key_vars, overflow_checks, registered, draw_vars, main_vars, render_vars, pipelines>>

\* A call on a TrackedRenderPass, with the entity of the item it is made for.
Call(op, item, index, resource, offset) ==
    [op |-> op, item |-> item, index |-> index, resource |-> resource, offset |-> offset]

\* A render pass before any call.
NewPass == [calls |-> <<>>, errors |-> <<>>]

\* The result of a render command and the pass after it; "Panic" is an
\* unwrap() of nothing or a resource that does not exist.
Result(result, pass) == [result |-> result, pass |-> pass]

\* The pass with one call more.
Pass(pass, call) == [pass EXCEPT !.calls = Append(@, call)]

\* SetItemPipeline of the engine: the item's pipeline is set if the cache
\* has created it.
SetItemPipeline(view, item, pass) ==
    IF pipeline_cache[item.pipeline + 1].state = "Ok"
    THEN Result("Success",
                Pass(pass, Call("set_render_pipeline", item.entity, 0,
                                <<"pipeline", item.pipeline>>, 0)))
    ELSE Result("Failure", pass)

\* SetViewBindGroup<I>::render: view_query.get(view).unwrap() needs the
\* ViewUniformOffset and the ViewBindGroup of the view.
SetViewBindGroup(I, view, item, pass) ==
    IF view \notin DOMAIN view_offset \/ view \notin DOMAIN view_bind_group
    THEN Result("Panic", pass)
    ELSE Result("Success",
                Pass(pass, Call("set_bind_group", item.entity, I,
                                <<view_bind_group[view]>>, view_offset[view])))

\* SetMeshBindGroup<I>::render: the MeshBindGroup resource has to exist, and
\* mesh_query.get(item).unwrap() needs the DynamicUniformIndex of the item.
SetMeshBindGroup(I, view, item, pass) ==
    IF mesh_bind_group = None \/ item.entity \notin DOMAIN uniform_index
    THEN Result("Panic", pass)
    ELSE Result("Success",
                Pass(pass, Call("set_bind_group", item.entity, I,
                                <<mesh_bind_group[1]>>, uniform_index[item.entity])))

\* A DrawTriangleMesh that unwraps the GPU mesh.
DrawTriangleMesh_unwrap(view, item, pass) ==
    IF item.entity \notin DOMAIN records THEN Result("Panic", pass)
    ELSE LET mesh_handle_id == records[item.entity].handle.id
             mesh == <<"mesh", mesh_handle_id>>
         IN  IF mesh_handle_id \notin DOMAIN render_assets
             THEN Result("Panic", pass)
             ELSE Result("Success",
                         Pass(Pass(pass, Call("set_vertex_buffer", item.entity, 0, mesh, 0)),
                              Call("draw", item.entity, 0, mesh, 0)))

\* A DrawTriangleMesh that makes both draws for a mesh with indices.
DrawTriangleMesh_both(view, item, pass) ==
    IF item.entity \notin DOMAIN records THEN Result("Panic", pass)
    ELSE LET mesh_handle_id == records[item.entity].handle.id
             mesh == <<"mesh", mesh_handle_id>>
         IN  IF mesh_handle_id \notin DOMAIN render_assets
             THEN Result("Failure",
                         [pass EXCEPT !.errors = Append(@, [message |-> "couldn't get mesh",
                                                            item |-> item.entity])])
             ELSE LET bound == Pass(pass, Call("set_vertex_buffer", item.entity, 0, mesh, 0))
                      drawn == Pass(bound, Call("draw", item.entity, 0, mesh, 0))
                  IN  IF render_assets[mesh_handle_id] = "Indexed"
                      THEN Result("Success",
                                  Pass(Pass(drawn, Call("set_index_buffer", item.entity, 0, mesh, 0)),
                                       Call("draw_indexed", item.entity, 0, mesh, 0)))
                      ELSE Result("Success", drawn)

\* DrawTriangleMesh::render: mesh_query.get(item).unwrap() needs the
\* TriangleMeshHandle of the item; without a GPU mesh for the handle the
\* error is logged and the command fails; with one, the vertex buffer is
\* set and the draw is indexed or not as the buffer_info says.
DrawTriangleMesh(view, item, pass) ==
    IF item.entity \notin DOMAIN records THEN Result("Panic", pass)
    ELSE LET mesh_handle_id == records[item.entity].handle.id
             mesh == <<"mesh", mesh_handle_id>>
         IN  IF mesh_handle_id \notin DOMAIN render_assets
             THEN Result("Failure",
                         [pass EXCEPT !.errors = Append(@, [message |-> "couldn't get mesh",
                                                            item |-> item.entity])])
             ELSE LET bound == Pass(pass, Call("set_vertex_buffer", item.entity, 0, mesh, 0))
                  IN  IF render_assets[mesh_handle_id] = "Indexed"
                      THEN Result("Success",
                                  Pass(Pass(bound, Call("set_index_buffer", item.entity, 0, mesh, 0)),
                                       Call("draw_indexed", item.entity, 0, mesh, 0)))
                      ELSE Result("Success",
                                  Pass(bound, Call("draw", item.entity, 0, mesh, 0)))

\* A tuple that draws the mesh before the mesh bind group is set.
DrawTriangle_mesh_first(view, item, pass) ==
    LET r1 == SetItemPipeline(view, item, pass)
    IN  IF r1.result # "Success" THEN r1
        ELSE LET r2 == SetViewBindGroup(0, view, item, r1.pass)
             IN  IF r2.result # "Success" THEN r2
                 ELSE LET r3 == DrawTriangleMesh(view, item, r2.pass)
                      IN  IF r3.result # "Success" THEN r3
                          ELSE SetMeshBindGroup(1, view, item, r3.pass)

\* DrawTriangle, the tuple (SetItemPipeline, SetViewBindGroup<0>,
\* SetMeshBindGroup<1>, DrawTriangleMesh): the commands in this order, up to
\* the first that does not succeed.
DrawTriangle(view, item, pass) ==
    LET r1 == SetItemPipeline(view, item, pass)
    IN  IF r1.result # "Success" THEN r1
        ELSE LET r2 == SetViewBindGroup(0, view, item, r1.pass)
             IN  IF r2.result # "Success" THEN r2
                 ELSE LET r3 == SetMeshBindGroup(1, view, item, r2.pass)
                      IN  IF r3.result # "Success" THEN r3
                          ELSE DrawTriangleMesh(view, item, r3.pass)

\* The draw function of another contributor.
DrawSprite(view, item, pass) ==
    Result("Success", Pass(pass, Call("draw_sprite", item.entity, 0, <<>>, 0)))

\* The draw function of the item, as add_render_command registered it.
Draw(view, item, pass) ==
    IF item.draw_function = "DrawTriangle" THEN DrawTriangle(view, item, pass)
    ELSE DrawSprite(view, item, pass)

RECURSIVE DrawItems(_, _, _)
\* The pass node of a view: the draw function of each of the first n items
\* of the phase, in the order of the phase; a failed command does not stop
\* the pass, a panic does.
DrawItems(view, items, n) ==
    IF n = 0 THEN Result("Success", NewPass)
    ELSE LET sofar == DrawItems(view, items, n - 1)
         IN  IF sofar.result = "Panic" THEN sofar
             ELSE LET r == Draw(view, items[n], sofar.pass)
                  IN  Result(IF r.result = "Panic" THEN "Panic" ELSE "Success", r.pass)

\* render_system of the engine, after the pipelines are processed: the
\* render graph runs the pass of every extracted view.
render_system ==
    /\ MayRun("render_system")
    /\ "process_pipeline_queue" \in Systems(stage) => "process_pipeline_queue" \in ran
    /\ LET drawn == [v \in extracted_views |-> DrawItems(v, phase[v], Len(phase[v]))]
       IN  /\ passes' = [v \in Views |-> IF v \in extracted_views THEN drawn[v].pass
                                          ELSE NewPass]
           /\ IF \E v \in extracted_views : drawn[v].result = "Panic"
              THEN stage' = "Panicked" /\ ran' = ran /\ done' = done
              ELSE Ran("render_system")
    /\ UNCHANGED <<key_vars, overflow_checks, registered, main_vars, render_vars, cache_vars,
                   resource_vars, component_vars>>

\* A resource that stays in the render world is, in the next frame, one of
\* an earlier frame.
Kept(resource) ==
    [i \in DOMAIN resource |-> [resource[i] EXCEPT !.built = "an earlier frame"]]

\* The end of the frame: World::clear_entities on the render world.  The
\* entities and their components go; the resources (the pipeline caches,
\* the GPU meshes, the uniform buffers, MeshBindGroup) stay.
clear_entities ==
    /\ stage = "Cleanup"
    /\ prev_records' = DOMAIN records
    /\ records' = EmptyTable
    /\ visible' = [v \in Views |-> {}]
    /\ phase' = [v \in Views |-> <<>>]
    /\ unsorted' = [v \in Views |-> <<>>]
    /\ extracted_views' = {}
    /\ view_offset' = EmptyTable
    /\ view_bind_group' = EmptyTable
    /\ uniform_index' = EmptyTable
    /\ mesh_bind_group' = Kept(mesh_bind_group)
    /\ passes' = [v \in Views |-> NewPass]
    /\ stage' = NextStage(stage)
    /\ done' = {}
    /\ UNCHANGED <<key_vars, overflow_checks, registered, ran, main_vars, cache_vars,
                   render_assets, view_uniforms, mesh_uniforms>>

(***************************************************************************)
(* Specifications.                                                         *)
(***************************************************************************)
\* The frame before the first update: nothing extracted, nothing cached.
FrameStart ==
    /\ stage = "Update" /\ ran = {}
    /\ mesh_handle = EmptyTable /\ meshes = 0
    /\ records = EmptyTable
    /\ visible = [v \in Views |-> {}]
    /\ phase = [v \in Views |-> <<>>]
    /\ unsorted = [v \in Views |-> <<>>]
    /\ prev_records = {}
    /\ pipelines = EmptyTable /\ pipeline_cache = <<>>
    /\ done = {}
    /\ render_assets = EmptyTable
    /\ view_uniforms = [capacity |-> 0, buffer |-> None]
    /\ mesh_uniforms = [capacity |-> 0, buffer |-> None]
    /\ mesh_bind_group = None
    /\ extracted_views = {}
    /\ view_offset = EmptyTable
    /\ view_bind_group = EmptyTable
    /\ uniform_index = EmptyTable
    /\ passes = [v \in Views |-> NewPass]

\* The systems that extract, queue and sort the draw items, and the
\* pipeline cache.
QueueingSystems ==
    {"extract_cameras", "extract_triangle_meshes", "queue_sprites", "queue_triangles",
     "sort_phase_system", "process_pipeline_queue"}

\* The systems from the extraction to the render pass, without the other
\* draw contributors.
DrawingSystems ==
    {"extract_cameras", "extract_triangle_meshes", "prepare_assets",
     "prepare_view_uniforms", "prepare_uniform_components", "queue_view_bind_groups",
     "queue_mesh_bind_groups", "queue_triangles", "sort_phase_system",
     "process_pipeline_queue", "render_system"}

\* A world of triangles and other entities; entities that are no triangle
\* stay as they are.
WorldInit ==
    /\ has_triangle \in [Entities -> BOOLEAN]
    /\ tform \in [Entities -> Transforms]
    /\ is_visible \in [Entities -> BOOLEAN]
    /\ \A e \in Entities :
         ~has_triangle[e] => is_visible[e] /\ tform[e] = [translation |-> <<0, 0, 5>>]

\* The frames of an application with the Msaa resource of main().
Init ==
    /\ KeyIdle /\ overflow_checks = TRUE
    /\ FrameStart /\ WorldInit
    /\ registered = QueueingSystems
    /\ msaa = DefaultMsaa

Next ==
    \/ \E e \in Entities, t \in Transforms : set_transform(e, t)
    \/ \E e \in Entities, b \in BOOLEAN : set_visibility(e, b)
    \/ triangle_mesh_system
    \/ \E visible_sets \in [Views -> SUBSET Entities] : extract_cameras(Views, visible_sets)
    \/ \E order \in IterationOrders(WithHandle) : extract_triangle_meshes(order)
    \/ queue_sprites
    \/ \E order \in IterationOrders(DOMAIN records) : queue_triangles(order)
    \/ sort_phase_system
    \/ process_pipeline_queue(WaitingIds)
    \/ clear_entities

Spec == Init /\ [][Next]_vars

\* The frames of an application that changes the sample count, with
\* pipelines that may take frames to be created; the world is the one
\* setup() spawns, next to entities that are no triangle.
PipelineInit ==
    /\ KeyIdle /\ overflow_checks = TRUE
    /\ FrameStart /\ WorldInit
    /\ registered = QueueingSystems
    /\ has_triangle = [e \in Entities |-> e = 1]
    /\ is_visible = [e \in Entities |-> TRUE]
    /\ tform = [e \in Entities |-> [translation |-> <<0, 0, 5>>]]
    /\ msaa \in MsaaChoices

PipelineNext ==
    \/ \E n \in MsaaChoices : set_msaa(n)
    \/ triangle_mesh_system
    \/ \E visible_sets \in [Views -> SUBSET Entities] : extract_cameras(Views, visible_sets)
    \/ \E order \in IterationOrders(WithHandle) : extract_triangle_meshes(order)
    \/ queue_sprites
    \/ \E order \in IterationOrders(DOMAIN records) : queue_triangles(order)
    \/ sort_phase_system
    \/ \E ready \in SUBSET WaitingIds : process_pipeline_queue(ready)
    \/ clear_entities

PipelineSpec == PipelineInit /\ [][PipelineNext]_vars

\* The order in which the queries of the render world visit their
\* entities: one order for each set of them.
QueryOrder(S) == CHOOSE order \in IterationOrders(S) : TRUE

\* Transform::default() of setup(): no translation.
DefaultTransform == [translation |-> <<0, 0, 0>>]

\* The frames from the extraction to the render pass: the triangle setup()
\* spawns, next to triangles behind it; triangles are shown and hidden,
\* cameras are active or not, GPU meshes are there or not.
DrawInit ==
    /\ KeyIdle /\ overflow_checks = TRUE
    /\ FrameStart
    /\ registered = DrawingSystems
    /\ has_triangle = [e \in Entities |-> TRUE]
    /\ is_visible \in [Entities -> BOOLEAN]
    /\ tform = [e \in Entities |-> IF e = 1 THEN DefaultTransform
                                   ELSE [translation |-> <<1, 0, -2>>]]
    /\ msaa = DefaultMsaa

DrawNext ==
    \/ \E e \in Entities, b \in BOOLEAN : set_visibility(e, b)
    \/ triangle_mesh_system
    \/ \E active \in SUBSET Views : extract_cameras(active, [v \in Views |-> Entities])
    \/ \E order \in IterationOrders(WithHandle) : extract_triangle_meshes(order)
    \/ \E gpu_meshes \in GpuMeshes : prepare_assets(gpu_meshes)
    \/ prepare_view_uniforms(QueryOrder(extracted_views))
    \/ prepare_uniform_components(QueryOrder(DOMAIN records))
    \/ queue_view_bind_groups
    \/ queue_mesh_bind_groups
    \/ queue_triangles(QueryOrder(DOMAIN records))
    \/ sort_phase_system
    \/ process_pipeline_queue(WaitingIds)
    \/ render_system
    \/ clear_entities

DrawSpec == DrawInit /\ [][DrawNext]_vars

\* The sample counts the 6 bits of the key hold.
MsaaCounts == 1..(Val(MSAA_MASK_BITS) + 1)

\* The frames of an application started with any sample count the key
\* holds, and changing it later; the world is the one setup() spawns, seen
\* by every view.
SampleInit ==
    /\ KeyIdle /\ overflow_checks = TRUE
    /\ FrameStart
    /\ registered = QueueingSystems
    /\ has_triangle = [e \in Entities |-> e = 1]
    /\ is_visible = [e \in Entities |-> TRUE]
    /\ tform = [e \in Entities |-> DefaultTransform]
    /\ msaa \in MsaaCounts

SampleNext ==
    \/ \E n \in MsaaChoices : set_msaa(n)
    \/ triangle_mesh_system
    \/ extract_cameras(Views, [v \in Views |-> Entities])
    \/ \E order \in IterationOrders(WithHandle) : extract_triangle_meshes(order)
    \/ queue_sprites
    \/ \E order \in IterationOrders(DOMAIN records) : queue_triangles(order)
    \/ sort_phase_system
    \/ process_pipeline_queue(WaitingIds)
    \/ clear_entities

SampleSpec == SampleInit /\ [][SampleNext]_vars

\* One key computation, for each input and each build profile.
KeyInit ==
    /\ k_pc = "input" /\ k_n \in SampleInputs /\ k_f \in FlagNames
    /\ k_key = {} /\ k_samples = 0 /\ k_or = {} /\ k_or_samples = 0
    /\ overflow_checks \in BOOLEAN
    /\ FrameStart
    /\ registered = QueueingSystems
    /\ has_triangle = [e \in Entities |-> FALSE]
    /\ is_visible = [e \in Entities |-> TRUE]
    /\ tform = [e \in Entities |-> [translation |-> <<0, 0, 5>>]]
    /\ msaa = DefaultMsaa

KeyNext ==
    \/ KeyFromMsaaSamples
    \/ KeyMsaaSamples
    \/ KeyOrFlag
    \/ KeyMsaaSamplesOfMerged

KeySpec == KeyInit /\ [][KeyNext]_vars

(***************************************************************************)
(* Properties of the key (under KeySpec).                                  *)
(***************************************************************************)
\* msaa_samples has been applied to the key of k_n.
KeyRead == k_pc \in {"read", "merged", "done"}

\* C1: for every sample count n in 1..64, msaa_samples applied to
\* from_msaa_samples(n) returns exactly n, and neither call fails.
C1_RoundTrip ==
    k_n \in 1..64 => /\ k_pc # "panicked"
                     /\ KeyRead => k_samples = k_n

C1_Witness == k_pc = "read" /\ k_n = 64 /\ k_samples = 64

\* C2: the flag bits and the MSAA field do not overlap: for f in
\* {NONE, COLORED} and n in 1..64, the key k = from_msaa_samples(n) | f has
\* msaa_samples(k) = n, and k contains COLORED if and only if f = COLORED.
C2_FlagsDisjoint ==
    (k_pc = "done" /\ k_n \in 1..64) =>
        /\ k_or_samples = k_n
        /\ contains(k_or, COLORED) <=> (k_f = "COLORED")

C2_Witness ==
    /\ k_pc = "done" /\ k_n = 64 /\ k_f = "COLORED"
    /\ k_or_samples = 64 /\ contains(k_or, COLORED)

\* C3: from_msaa_samples has no error path for a sample count n >= 1, also
\* for n > 64: it returns a key, all of whose bits are declared flag bits,
\* and msaa_samples of that key is ((n - 1) mod 64) + 1.
C3_Truncation ==
    k_n >= 1 =>
        /\ k_pc # "panicked"
        /\ k_pc # "input" => k_key \subseteq MSAA_RESERVED_BITS
        /\ KeyRead => k_samples = ((k_n - 1) % 64) + 1

C3_Witness == k_pc = "read" /\ k_n = 2147483647 /\ k_samples = 63

\* C4: a sample count of 0 is no error: from_msaa_samples(0) yields a key
\* without failing.
C4_ZeroIsNoError == k_n = 0 => k_pc # "panicked"

(***************************************************************************)
(* Properties of the frames.                                               *)
(***************************************************************************)
\* The DrawTriangle items of a sequence of draw items, as positions.
TriangleItems(items) == {i \in 1..Len(items) : items[i].draw_function = "DrawTriangle"}

\* The key queue_triangles specializes in this frame.
CurrentKey == from_msaa_samples(U32(msaa), overflow_checks).bits

\* C5: at most one pipeline is built per distinct specialization key, over
\* all frames: no two entries of the pipeline cache have the same key, every
\* specialized key maps to the entry built for it, and every item
\* queue_triangles queued carries the id cached for the frame's key, also
\* while that pipeline is still waiting to be created.
C5_OnePipelinePerKey ==
    /\ \A i, j \in 1..Len(pipeline_cache) :
         pipeline_cache[i].key = pipeline_cache[j].key => i = j
    /\ Len(pipeline_cache) = Cardinality(DOMAIN pipelines)
    /\ \A k \in DOMAIN pipelines :
         /\ pipelines[k] + 1 \in 1..Len(pipeline_cache)
         /\ pipeline_cache[pipelines[k] + 1].key = k
    /\ \A v \in Views : \A i \in TriangleItems(phase[v]) :
         /\ CurrentKey \in DOMAIN pipelines
         /\ phase[v][i].pipeline = pipelines[CurrentKey]

\* queue_triangles has just asked for a key that was specialized in an
\* earlier frame (another key was specialized since) and is still waiting.
C5_Witness ==
    /\ stage = "PhaseSort"
    /\ Len(pipeline_cache) = 2
    /\ CurrentKey \in DOMAIN pipelines /\ pipelines[CurrentKey] = 0
    /\ pipeline_cache[1].state = "Queued"
    /\ \E v \in Views : \E i \in TriangleItems(phase[v]) : phase[v][i].pipeline = 0

\* extract_triangle_meshes has run in this frame.
AfterExtract ==
    \/ stage \in {"Queue", "PhaseSort", "Render", "Cleanup"}
    \/ stage = "Extract" /\ "extract_triangle_meshes" \in ran

\* queue_triangles has run in this frame.
AfterQueueTriangles ==
    \/ stage \in {"PhaseSort", "Render", "Cleanup"}
    \/ stage = "Queue" /\ "queue_triangles" \in ran

\* C6: after extract_triangle_meshes has run in a frame, every entity with a
\* geometry handle, a global transform and is_visible = true has its record
\* (a weak copy of its handle, the matrix of its transform), and no entity
\* whose is_visible is false has one, in whatever order the entities were
\* visited.
C6_ExtractExact ==
    AfterExtract =>
        \A e \in Entities :
           /\ (e \in DOMAIN mesh_handle /\ is_visible[e]) =>
                 /\ e \in DOMAIN records
                 /\ records[e].handle = [id |-> mesh_handle[e].id, strong |-> FALSE]
                 /\ records[e].uniform.transform.w_axis =
                       <<tform[e].translation[1], tform[e].translation[2],
                         tform[e].translation[3], 1>>
           /\ ~is_visible[e] => e \notin DOMAIN records

C6_Witness ==
    /\ AfterExtract
    /\ \E e, d \in Entities :
         /\ e \in DOMAIN records
         /\ d \in DOMAIN mesh_handle /\ ~is_visible[d] /\ d \notin DOMAIN records

\* C7: extraction has no memory of prior frames: when a frame starts no
\* record and no draw item of the frame before is left, and an entity that
\* had a record in the previous frame and has is_visible = false in this one
\* has no record and no draw item in this frame.
C7_NoMemory ==
    /\ ~AfterExtract =>
          /\ records = EmptyTable
          /\ \A v \in Views : TriangleItems(phase[v]) = {}
    /\ AfterExtract =>
          \A e \in prev_records :
             ~is_visible[e] =>
                /\ e \notin DOMAIN records
                /\ \A v \in Views : \A i \in TriangleItems(phase[v]) : phase[v][i].entity # e

\* An entity drawn in the previous frame is hidden in this one, is still in
\* a view's visible set, and queue_triangles has run.
C7_Witness ==
    /\ AfterQueueTriangles
    /\ \E e \in prev_records, v \in Views :
         /\ ~is_visible[e] /\ e \in visible[v]
         /\ TriangleItems(phase[v]) # {}

\* C8: for every view, queue_triangles adds one draw item for each instance
\* record whose entity is in the view's visible-entity set and none for any
\* other entity, and the item's sort key is the z translation (w_axis.z) of
\* the transform extraction stored in the record.
C8_QueueExact ==
    AfterQueueTriangles =>
        \A v \in Views : \A e \in Entities :
           LET items == {i \in TriangleItems(phase[v]) : phase[v][i].entity = e}
           IN  /\ Cardinality(items) = IF e \in DOMAIN records /\ e \in visible[v] THEN 1 ELSE 0
               /\ \A i \in items :
                    /\ phase[v][i].sort_key = records[e].uniform.transform.w_axis[3]
                    /\ phase[v][i].sort_key = tform[e].translation[3]

\* One record is queued in one view and not in the other, and an entity of a
\* view's visible set that has no record gets no item.
C8_Witness ==
    /\ AfterQueueTriangles
    /\ \E e \in DOMAIN records :
         /\ e \in visible["view_a"] /\ e \notin visible["view_b"]
         /\ \E i \in TriangleItems(phase["view_a"]) : phase["view_a"][i].entity = e
    /\ \E d \in Entities : d \notin DOMAIN records /\ d \in visible["view_a"]

\* The depth an item is drawn at: the z of its entity's transform.
Depth(item) ==
    IF item.draw_function = "DrawTriangle" THEN tform[item.entity].translation[3]
    ELSE item.sort_key

\* The items of a sequence that have the given sort key, in their order.
WithKey(items, k) == LET HasKey(item) == item.sort_key = k IN SelectSeq(items, HasKey)

\* C9: the draw items of a view are sequenced in ascending sort-key order,
\* which is ascending depth, and items with equal sort keys keep the order in
\* which they were inserted.
C9_SortedStable ==
    stage \in {"Render", "Cleanup"} =>
        \A v \in Views :
           /\ Len(phase[v]) = Len(unsorted[v])
           /\ \A i, j \in 1..Len(phase[v]) :
                i < j => /\ phase[v][i].sort_key <= phase[v][j].sort_key
                         /\ Depth(phase[v][i]) <= Depth(phase[v][j])
           /\ \A n \in 1..Len(unsorted[v]) :
                WithKey(phase[v], unsorted[v][n].sort_key) =
                   WithKey(unsorted[v], unsorted[v][n].sort_key)

\* Depths inserted as [5, -2, 3] are sequenced as [-2, 3, 5].
C9_Witness ==
    /\ stage = "Render"
    /\ \E v \in Views :
         /\ Len(unsorted[v]) = 3
         /\ [i \in 1..3 |-> Depth(unsorted[v][i])] = <<5, -2, 3>>
         /\ [i \in 1..3 |-> Depth(phase[v][i])] = <<-2, 3, 5>>

\* The step in which queue_triangles runs.
QueueTrianglesStep ==
    /\ stage = "Queue" /\ "queue_triangles" \notin ran
    /\ stage' = "PhaseSort" \/ (stage' = "Queue" /\ "queue_triangles" \in ran')

\* C10: queue_triangles only appends to a view's phase: the items present
\* before the call are still there, unmodified and in place, after it, and
\* what a view's phase gains are DrawTriangle items of that view's own
\* visible entities.
C10_AppendOnly ==
    [][QueueTrianglesStep =>
         \A v \in Views :
            /\ Len(phase'[v]) >= Len(phase[v])
            /\ SubSeq(phase'[v], 1, Len(phase[v])) = phase[v]
            /\ \A i \in (Len(phase[v]) + 1)..Len(phase'[v]) :
                 /\ phase'[v][i].draw_function = "DrawTriangle"
                 /\ phase'[v][i].entity \in visible[v]]_vars

\* queue_triangles ran after another contributor: one view holds the other's
\* item followed by a triangle, the other view holds the other's item alone.
C10_Witness ==
    /\ stage = "PhaseSort"
    /\ \E v, w \in Views :
         /\ Len(phase[v]) = 2 /\ phase[v][1] = SpriteItem
         /\ phase[v][2].draw_function = "DrawTriangle"
         /\ phase[w] = <<SpriteItem>>

(***************************************************************************)
(* Properties of the render pass (under DrawSpec).                         *)
(***************************************************************************)
\* The calls of a view's pass made for the item of an entity, in order.
ItemCalls(v, e) ==
    LET ForItem(call) == call.item = e IN SelectSeq(passes[v].calls, ForItem)

Ops(calls) == [i \in 1..Len(calls) |-> calls[i].op]

\* The item of an entity in a view's phase.
ItemOf(v, e) == phase[v][CHOOSE i \in 1..Len(phase[v]) : phase[v][i].entity = e]

Binds == <<"set_render_pipeline", "set_bind_group", "set_bind_group">>

\* C11: the calls DrawTriangle makes for an item are, in this order: the
\* item's pipeline, the view's bind group at index 0 with the view's
\* offset, the mesh bind group at index 1 with the item's uniform index,
\* the vertex buffer of the item's mesh, (the index buffer,) the draw; a
\* draw is never made with one of the four binds missing before it.
C11_CommandOrder ==
    \A v \in Views, e \in Entities :
       LET calls == ItemCalls(v, e)
       IN  /\ Ops(calls) \in {<<>>, Binds,
                               Binds \o <<"set_vertex_buffer", "draw">>,
                               Binds \o <<"set_vertex_buffer", "set_index_buffer",
                                          "draw_indexed">>}
           /\ calls # <<>> =>
                /\ calls[1].resource = <<"pipeline", ItemOf(v, e).pipeline>>
                /\ calls[2].index = 0
                /\ calls[2].resource = <<view_bind_group[v]>>
                /\ calls[2].offset = view_offset[v]
                /\ calls[3].index = 1
                /\ calls[3].resource = <<mesh_bind_group[1]>>
                /\ calls[3].offset = uniform_index[e]
           /\ Len(calls) > Len(Binds) =>
                /\ calls[4].index = 0
                /\ calls[4].resource = <<"mesh", records[e].handle.id>>

\* A pass has drawn two triangles, one not indexed and one indexed, the
\* second of them with a uniform index other than the first's.
C11_Witness ==
    /\ stage = "Cleanup"
    /\ \E v \in Views, e, f \in Entities :
         /\ Ops(ItemCalls(v, e)) = Binds \o <<"set_vertex_buffer", "draw">>
         /\ Ops(ItemCalls(v, f)) = Binds \o <<"set_vertex_buffer", "set_index_buffer",
                                               "draw_indexed">>
         /\ ItemCalls(v, f)[3].offset = 1
         /\ view_offset[v] = 1

\* The entities of the items of a view's phase, in the order of the phase.
PhaseEntities(v) == [i \in 1..Len(phase[v]) |-> phase[v][i].entity]

\* The handle of the entity's record resolves to a GPU mesh.
Resolved(e) == e \in DOMAIN records /\ records[e].handle.id \in DOMAIN render_assets

Unresolved(e) == ~Resolved(e)

\* The draw calls of a view's pass, in order.
DrawCalls(v) ==
    LET IsDraw(call) == call.op \in {"draw", "draw_indexed"}
    IN  SelectSeq(passes[v].calls, IsDraw)

Items(calls) == [i \in 1..Len(calls) |-> calls[i].item]

Range(f) == {f[x] : x \in DOMAIN f}

\* C12: an item whose handle resolves to no GPU mesh has its failure
\* logged and gets no vertex buffer and no draw; the other items of the
\* view are drawn, in the order of the sorted phase; the frame goes on, in
\* this view and in the others.
C12_MissingMeshSkipped ==
    /\ stage # "Panicked"
    /\ stage = "Cleanup" =>
         \A v \in extracted_views :
            /\ Items(DrawCalls(v)) = SelectSeq(PhaseEntities(v), Resolved)
            /\ Items(passes[v].errors) = SelectSeq(PhaseEntities(v), Unresolved)
            /\ \A i \in 1..Len(phase[v]) :
                 Unresolved(phase[v][i].entity) =>
                    Ops(ItemCalls(v, phase[v][i].entity)) = Binds

\* The first item of the sorted phase had no GPU mesh and the second was
\* drawn, in both views.
C12_Witness ==
    /\ stage = "Cleanup"
    /\ extracted_views = Views
    /\ \A v \in Views :
         /\ Len(phase[v]) = 2
         /\ Unresolved(phase[v][1].entity)
         /\ Items(passes[v].errors) = <<phase[v][1].entity>>
         /\ Items(DrawCalls(v)) = <<phase[v][2].entity>>

\* The frame is one of the world setup() makes: the only triangle shown is
\* the one with the default transform, and it has its handle.
OneEntity ==
    /\ is_visible = [e \in Entities |-> e = 1]
    /\ tform[1] = DefaultTransform
    /\ 1 \in DOMAIN mesh_handle

\* The frame of that world has, at its end: one record, that of the entity;
\* in each view that sees the entity one draw item, that of the entity.
OneRecordOneItem ==
    /\ DOMAIN records = {1}
    /\ records[1] = extracted(1)[2]
    /\ \A v \in extracted_views :
         1 \in visible[v] =>
            /\ Len(phase[v]) = 1
            /\ phase[v][1].entity = 1
            /\ phase[v][1].sort_key = 0

Step(system) == system \notin done /\ system \in done'

\* C14: queue_view_bind_groups without a binding of the view uniforms
\* gives no view a ViewBindGroup, and with one gives every extracted view
\* a new one of that buffer; queue_mesh_bind_groups without a binding of
\* the mesh uniforms leaves the MeshBindGroup resource as it was, and with
\* one leaves exactly one MeshBindGroup, a new one of that buffer; neither
\* fails, neither touches what the other builds.
C14_BuildersNoOp ==
    [][/\ Step("queue_view_bind_groups") =>
            /\ stage' # "Panicked"
            /\ mesh_bind_group' = mesh_bind_group
            /\ IF binding(view_uniforms) = None
               THEN view_bind_group' = view_bind_group /\ DOMAIN view_bind_group' = {}
               ELSE /\ DOMAIN view_bind_group' = extracted_views
                    /\ \A v \in extracted_views :
                         view_bind_group'[v] =
                            [label |-> "texture view bind group",
                             buffer |-> view_uniforms.buffer[1], built |-> "this frame"]
       /\ Step("queue_mesh_bind_groups") =>
            /\ stage' # "Panicked"
            /\ view_bind_group' = view_bind_group
            /\ IF binding(mesh_uniforms) = None
               THEN mesh_bind_group' = mesh_bind_group
               ELSE mesh_bind_group' =
                       <<[label |-> "body_mesh_bind_group",
                          buffer |-> mesh_uniforms.buffer[1], built |-> "this frame"]>>]_vars

\* Both builders have run in a frame with views and no instance so far: no
\* MeshBindGroup, a ViewBindGroup for each view.
C14_Witness ==
    /\ stage = "Queue"
    /\ {"queue_view_bind_groups", "queue_mesh_bind_groups"} \subseteq done
    /\ binding(mesh_uniforms) = None /\ mesh_bind_group = None
    /\ binding(view_uniforms) # None /\ DOMAIN view_bind_group = Views

\* What the unwraps and the SRes of DrawTriangle need for an item of a view.
HasComponents(v, item) ==
    /\ v \in DOMAIN view_offset /\ v \in DOMAIN view_bind_group
    /\ mesh_bind_group # None
    /\ item.entity \in DOMAIN uniform_index
    /\ item.entity \in DOMAIN records

\* C15: no frame ends in a panic: when the items are sequenced, every item
\* of every view finds the components and the resource its commands unwrap;
\* a view for which no ViewBindGroup was built has no call made on its
\* pass, an item without GPU mesh has no draw, and the frame ends.
C15_NeverFatal ==
    /\ stage # "Panicked"
    /\ stage \in {"Render", "Cleanup"} =>
         \A v \in Views :
            /\ \A i \in TriangleItems(phase[v]) : HasComponents(v, phase[v][i])
            /\ v \notin DOMAIN view_bind_group => passes[v] = NewPass /\ phase[v] = <<>>
            /\ \A e \in Entities : Unresolved(e) => e \notin Range(Items(DrawCalls(v)))

\* A frame has ended with one view that had no ViewBindGroup and one view
\* that had an item without GPU mesh.
C15_Witness ==
    /\ stage = "Cleanup"
    /\ \E v, w \in Views :
         /\ extracted_views = {v} /\ w # v
         /\ w \notin DOMAIN view_bind_group
         /\ passes[v].errors # <<>>
         /\ DrawCalls(v) # <<>>

\* The records are those of the whole main world: extraction is complete.
ExtractionComplete ==
    /\ DOMAIN records = {e \in WithHandle : is_visible[e]}
    /\ \A e \in DOMAIN records : records[e] = extracted(e)[2]

QueueStageSystems == {"queue_view_bind_groups", "queue_mesh_bind_groups", "queue_triangles"}

\* C16: a system of the Queue stage can run, and has run, only in a frame
\* in which extract_triangle_meshes has completed, with the records of all
\* entities in place; the render pass can run, and a call is made on a
\* pass, only in a frame in which both bind group builders have completed.
C16_Barriers ==
    /\ \A system \in QueueStageSystems :
         (MayRun(system) \/ system \in done) =>
            "extract_triangle_meshes" \in done /\ ExtractionComplete
    /\ (MayRun("render_system") \/ \E v \in Views : passes[v].calls # <<>>) =>
         {"queue_view_bind_groups", "queue_mesh_bind_groups"} \subseteq done

\* A frame in which records were extracted, bind groups built and calls
\* made on the passes of both views.
C16_Witness ==
    /\ stage = "Cleanup"
    /\ records # EmptyTable
    /\ \A v \in Views : DrawCalls(v) # <<>>
    /\ QueueStageSystems \cup {"extract_triangle_meshes", "render_system"} \subseteq done

\* C19: every bind group set on a pass was built in this frame, by the
\* builder that has run in this frame, from the buffer the uniforms have in
\* this frame: the ViewBindGroup of the view at index 0, the MeshBindGroup
\* now in the render world at index 1, never one of an earlier frame.
C19_BindGroupsOfThisFrame ==
    \A v \in Views :
       \A i \in 1..Len(passes[v].calls) :
          LET call == passes[v].calls[i]
          IN  call.op = "set_bind_group" =>
                 /\ call.resource[1].built = "this frame"
                 /\ call.index = 0 =>
                      /\ "queue_view_bind_groups" \in done
                      /\ call.resource = <<view_bind_group[v]>>
                      /\ <<call.resource[1].buffer>> = binding(view_uniforms)
                 /\ call.index = 1 =>
                      /\ "queue_mesh_bind_groups" \in done
                      /\ call.resource = mesh_bind_group
                      /\ <<call.resource[1].buffer>> = binding(mesh_uniforms)

\* A triangle has been drawn in a frame after one without any instance,
\* which came after a frame with more instances: at the start of this frame
\* the render world held a MeshBindGroup of an earlier frame.
C19_Witness ==
    /\ stage = "Cleanup"
    /\ prev_records = {}
    /\ Cardinality(DOMAIN records) < mesh_uniforms.capacity
    /\ \E v \in Views : DrawCalls(v) # <<>>

\* The items of a view's phase, as a set.
ItemSet(v) == {phase[v][i] : i \in 1..Len(phase[v])}

\* What each Queue-stage system leaves, as the state before the stage
\* determines it: the items of the records in the view, the bind group of
\* each extracted view, the one mesh bind group.
QueuedItems(v) ==
    {TriangleItem(e, pipelines[CurrentKey], mesh_z(records[e].uniform)) :
        e \in (DOMAIN records) \cap visible[v]}

BuiltViewBindGroups ==
    IF binding(view_uniforms) = None THEN EmptyTable
    ELSE [v \in extracted_views |->
            [label |-> "texture view bind group", buffer |-> view_uniforms.buffer[1],
             built |-> "this frame"]]

BuiltMeshBindGroup ==
    <<[label |-> "body_mesh_bind_group", buffer |-> mesh_uniforms.buffer[1],
       built |-> "this frame"]>>

\* C20: in the Queue stage and at its end, whichever of the three systems
\* have run and in whatever order: the items of each view are those
\* queue_triangles queues if it has run and none if it has not, the
\* ViewBindGroups are those queue_view_bind_groups builds if it has run and
\* none if it has not, and the MeshBindGroup is the one
\* queue_mesh_bind_groups builds if it has run with a binding, and the one
\* the frame began with if not.
C20_OrderIndependent ==
    (stage = "Queue" \/ (stage = "PhaseSort" /\ ran = {})) =>
       /\ \A v \in Views :
            /\ Len(phase[v]) = Cardinality(ItemSet(v))
            /\ ItemSet(v) = IF "queue_triangles" \in done THEN QueuedItems(v) ELSE {}
       /\ view_bind_group = IF "queue_view_bind_groups" \in done THEN BuiltViewBindGroups
                            ELSE EmptyTable
       /\ IF "queue_mesh_bind_groups" \in done /\ binding(mesh_uniforms) # None
          THEN mesh_bind_group = BuiltMeshBindGroup
          ELSE \A i \in DOMAIN mesh_bind_group : mesh_bind_group[i].built = "an earlier frame"

\* queue_triangles has run first and queue_view_bind_groups is to run
\* last, the reverse of the order they were added in: the items are
\* queued, the new MeshBindGroup is there, no ViewBindGroup yet.
C20_Witness ==
    /\ stage = "Queue"
    /\ ran = {"queue_triangles", "queue_mesh_bind_groups"}
    /\ \A v \in Views : Len(phase[v]) = MaxEntities
    /\ mesh_bind_group = BuiltMeshBindGroup
    /\ view_bind_group = EmptyTable /\ binding(view_uniforms) # None

(***************************************************************************)
(* Properties of the mesh handles (under Spec).                            *)
(***************************************************************************)
\* C17: in every step, an entity that has a handle keeps that very handle;
\* an entity that gets one is a triangle that had none; and the mesh assets
\* grow by exactly one for each entity that gets a handle, so no mesh is
\* generated for an entity that has one.
C17_HandleOnce ==
    [][/\ \A e \in DOMAIN mesh_handle :
            e \in DOMAIN mesh_handle' /\ mesh_handle'[e] = mesh_handle[e]
       /\ \A e \in (DOMAIN mesh_handle') \ (DOMAIN mesh_handle) :
            /\ has_triangle[e]
            /\ mesh_handle'[e].id \in (meshes + 1)..meshes'
            /\ \A d \in (DOMAIN mesh_handle') \ {e} : mesh_handle'[d].id # mesh_handle'[e].id
       /\ meshes' = meshes + Cardinality((DOMAIN mesh_handle') \ (DOMAIN mesh_handle))]_vars

\* triangle_mesh_system has run again in a frame after the one in which the
\* triangles got their handles.
C17_Witness ==
    /\ stage = "Extract"
    /\ prev_records # {}
    /\ DOMAIN mesh_handle = Entities
    /\ meshes = MaxEntities

(***************************************************************************)
(* Properties of the sample count (under SampleSpec).                      *)
(***************************************************************************)
\* C18: for every sample count from 1 to 64, every triangle item of a
\* frame references one pipeline, the one SpecializedPipelines holds for
\* the key of the frame's sample count, and the descriptor that pipeline
\* was queued with has that sample count as its multisample count.
C18_SampleCountReachesPipeline ==
    /\ msaa \in 1..64
    /\ stage # "Panicked"
    /\ \A v \in Views :
         \A i \in TriangleItems(phase[v]) :
            LET id == phase[v][i].pipeline
            IN  /\ CurrentKey \in DOMAIN pipelines
                /\ id = pipelines[CurrentKey]
                /\ pipeline_cache[id + 1].key = CurrentKey
                /\ pipeline_cache[id + 1].descriptor.multisample_count = msaa

\* A frame with 64 samples: the items of both views reference the pipeline
\* queued with 64 samples.
C18_Witness ==
    /\ stage = "PhaseSort"
    /\ msaa = 64
    /\ \A v \in Views :
         \E i \in TriangleItems(phase[v]) :
            pipeline_cache[phase[v][i].pipeline + 1].descriptor.multisample_count = 64

=============================================================================
